---- MODULE Spec2Model ----
(***************************************************************************)
(* uniqush/cache2: an LRU cache (SimpleCache) and its write-back variant   *)
(* (Cache) that queues dirty records and replays them against a Flusher.   *)
(* The model follows src/cache.go: the lookup index `data`, the recency    *)
(* list `list`, the dirty queue `dirtyList`, the mutex `mu`, and one       *)
(* program counter per goroutine that calls into the cache.                *)
(***************************************************************************)
EXTENDS Integers, Sequences, FiniteSets, TLC

\* ------------------------------------------------------------------ bounds
\* Longest recency list the model lets a Set build (Delete leaves elements
\* in the list, so the list is not bounded by the capacity).
MaxList == 3
\* Most dirty records ever appended to a write-back cache in one run.
MaxOps == 3

\* -------------------------------------------------------------- universes
Keys == {"key1", "key2", "key3"}
Values == {"1", "2"}
Workers == {"w1", "w2"}
Timer == "timer"
Threads == Workers \cup {Timer}

\* nil interface value returned by Get/Delete for an absent key
Nil == "nil"
\* absent map entry: data[k] has no *list.Element
NoElem == 0
\* unlocked sync.Mutex
NoThread == "none"

\* capacities NewSimple is called with
Capacities == {-1, 0, 1, 2}
\* <<capacity, maxNrDirty, flushPeriod>> New is called with; flushPeriod is in
\* tenths of a second
CacheArgs == {<<2, 2, 0>>, <<1, 0, 30>>, <<-1, -1, 30>>, <<0, -1, 0>>}

\* initialCapacity picked by New / NewSimple for a negative capacity
InitialCapacity == 1024

VARIABLES
    variant,      \* "simple" (SimpleCache) or "cache" (Cache)
    capacity,     \* c.capacity
    maxNrDirty,   \* c.maxNrDirty
    flushPeriod,  \* c.flushPeriod, in tenths of a second
    mu,           \* c.mu: the thread holding it, or NoThread
    data,         \* c.data: key -> position of its list element, or NoElem
    list,         \* c.list: front first, cacheItems [key, value]
    dirtyList,    \* c.dirtyList: front first, dirtyElement records
    pc,           \* per thread: where it stands in its current call
    call,         \* per thread: the public method it is in, or "none"
    cur,          \* per thread: Flush's loop cursor e (index into dirtyList)
    sink,         \* the Flusher's store: key -> value or Nil
    sinkLog,      \* every Flusher.Add / Flusher.Remove call made, in order
    appendLog,    \* every dirtyElement pushed on dirtyList, in order
    recency,      \* ghost: keys of the index by last touch (Set or Get hit), newest first
    lastOp,       \* ghost: the last Get/Set/Delete body run: [op, key, value, ret],
                  \* with had (the key was in the index) and len (Len() before it);
                  \* for a Len call, len is the count it returned
    written,      \* ghost: key -> value of its last Set, Nil after a Delete or before any Set
    deleted       \* ghost: keys that were passed to Cache.Delete

vars == <<variant, capacity, maxNrDirty, flushPeriod, mu, data, list, dirtyList,
          pc, call, cur, sink, sinkLog, appendLog, recency, lastOp, written, deleted>>

config == <<variant, capacity, maxNrDirty, flushPeriod>>
lru == <<data, list, recency, lastOp, written>>
history == <<sink, sinkLog, appendLog, deleted>>

\* ---------------------------------------------------------- container/list
\* A *list.Element is named by its current position in the list (1 = front):
\* data[k] is the position of the element the map entry of k points to. Every
\* list operation below comes with the renumbering of the pointers it moves.
RemoveAt(l, i) == SubSeq(l, 1, i - 1) \o SubSeq(l, i + 1, Len(l))

\* list.MoveToFront(e), e at position i
MoveToFront(l, i) == <<l[i]>> \o RemoveAt(l, i)

\* where the pointers point after MoveToFront of position i
PtrMoveToFront(d, i) ==
    [k \in DOMAIN d |->
        IF d[k] = i THEN 1
        ELSE IF d[k] # 0 /\ d[k] < i THEN d[k] + 1
        ELSE d[k]]

\* list.PushFront(v)
PushFront(l, e) == <<e>> \o l

\* where the pointers point after a PushFront
PtrPushFront(d) == [k \in DOMAIN d |-> IF d[k] # 0 THEN d[k] + 1 ELSE 0]

\* list.PushBack(v)
PushBack(l, e) == Append(l, e)

\* list.Back(): its position
Back(l) == Len(l)

\* mutant: Set of a present key moves the element and keeps its value
SetValueKept(l, i, v) == l

\* item.value = value, through the element pointer
SetValue(l, i, v) == [l EXCEPT ![i].value = v]

\* ------------------------------------------------------------------- Len()
LenOf(d) == Cardinality({k \in DOMAIN d : d[k] # NoElem})

\* ------------------------------------------------------------ constructors
\* cache.capacity = initialCapacity
NewCapacity(c) == IF c < 0 THEN InitialCapacity ELSE c

\* mutant: the period is compared in minutes
PeriodicMinutes == flushPeriod > 9 * 60

\* flushPeriod.Seconds() > 0.9 starts the timer goroutine
Periodic == flushPeriod > 9

EmptyIndex == [k \in Keys |-> NoElem]
NoCall == "none"
NoOp == [op |-> "none", key |-> Nil, value |-> Nil, ret |-> Nil,
         had |-> FALSE, len |-> 0]

InitState ==
    /\ mu = NoThread
    /\ data = EmptyIndex
    /\ list = <<>>
    /\ dirtyList = <<>>
    /\ pc = [t \in Threads |-> "idle"]
    /\ call = [t \in Threads |-> NoCall]
    /\ cur = [t \in Threads |-> 0]
    /\ sink = [k \in Keys |-> Nil]
    /\ sinkLog = <<>>
    /\ appendLog = <<>>
    /\ recency = <<>>
    /\ lastOp = NoOp
    /\ written = [k \in Keys |-> Nil]
    /\ deleted = {}

NewSimple ==
    /\ variant = "simple"
    /\ \E c \in Capacities : capacity = NewCapacity(c)
    /\ maxNrDirty = -1
    /\ flushPeriod = 0
    /\ InitState

New ==
    /\ variant = "cache"
    /\ \E a \in CacheArgs :
        /\ capacity = NewCapacity(a[1])
        /\ maxNrDirty = a[2]
        /\ flushPeriod = a[3]
    /\ InitState

Init == NewSimple \/ New

\* ------------------------------------------------------------ LRU bodies
\* the ghost order of last touches: k becomes the newest
Touch(r, k) == <<k>> \o SelectSeq(r, LAMBDA x : x # k)

\* the ghost order keeps the keys of the index only
Present(r, d) == SelectSeq(r, LAMBDA x : d[x] # NoElem)

\* body of Get under the lock: list and index after it
GetBody(l, d, k) ==
    IF d[k] # NoElem
    THEN [list |-> MoveToFront(l, d[k]), data |-> PtrMoveToFront(d, d[k])]
    ELSE [list |-> l, data |-> d]

\* value Get returns
GetRet(l, d, k) == IF d[k] # NoElem THEN l[d[k]].value ELSE Nil

\* mutant: a capacity of 0 is taken for "no limit"
SetBodyZeroUnbounded(l, d, cap, k, v) ==
    IF d[k] # NoElem
    THEN [list |-> MoveToFront(SetValue(l, d[k], v), d[k]),
          data |-> PtrMoveToFront(d, d[k])]
    ELSE LET l1 == PushFront(l, [key |-> k, value |-> v])
             d1 == [PtrPushFront(d) EXCEPT ![k] = 1]
         IN  IF cap > 0 /\ LenOf(d1) > cap
             THEN LET last == Back(l1)
                  IN  [list |-> RemoveAt(l1, last),
                       data |-> [d1 EXCEPT ![l1[last].key] = NoElem]]
             ELSE [list |-> l1, data |-> d1]

\* body of Set under the lock (SimpleCache.Set and the LRU part of Cache.Set)
SetBody(l, d, cap, k, v) ==
    IF d[k] # NoElem
    THEN [list |-> MoveToFront(SetValue(l, d[k], v), d[k]),
          data |-> PtrMoveToFront(d, d[k])]
    ELSE LET l1 == PushFront(l, [key |-> k, value |-> v])
             d1 == [PtrPushFront(d) EXCEPT ![k] = 1]
         IN  IF cap >= 0 /\ LenOf(d1) > cap
             THEN LET last == Back(l1)
                  IN  [list |-> RemoveAt(l1, last),
                       data |-> [d1 EXCEPT ![l1[last].key] = NoElem]]
             ELSE [list |-> l1, data |-> d1]

\* mutant: Delete returns the value and keeps the map entry
DeleteDataKept(d, k) == d

\* body of Delete under the lock: delete(c.data, key); the list is not touched
DeleteData(d, k) == [d EXCEPT ![k] = NoElem]

\* mutant: Delete returns the value of the front element
DeleteRetFront(l, d, k) == IF d[k] # NoElem THEN l[1].value ELSE Nil

\* value Delete returns
DeleteRet(l, d, k) == IF d[k] # NoElem THEN l[d[k]].value ELSE Nil

\* a Set may run when the list it leaves fits the model's bound
SetFits(k, v) == Len(SetBody(list, data, capacity, k, v).list) <= MaxList

\* the goroutine calls op and takes c.mu
Lock(t, op) ==
    /\ pc[t] = "idle" /\ mu = NoThread
    /\ mu' = t
    /\ pc' = [pc EXCEPT ![t] = op]
    /\ call' = [call EXCEPT ![t] = op]

\* the goroutine returns from its call; defer c.mu.Unlock() has run
Return(t) ==
    /\ mu' = NoThread
    /\ pc' = [pc EXCEPT ![t] = "idle"]
    /\ call' = [call EXCEPT ![t] = NoCall]

\* what the unlocked len(c.data) of Len can return: the entry count, or, while
\* another goroutine is inside a Set or a Delete, a count that body passes
\* through (one more entry while Set inserts, one less once Delete has deleted)
LenOutcomes ==
    {LenOf(data)}
    \cup (IF \E u \in Workers : mu = u /\ pc[u] = "Set"
          THEN {LenOf(data) + 1} ELSE {})
    \cup (IF LenOf(data) > 0 /\ \E u \in Workers : mu = u /\ pc[u] = "Delete"
          THEN {LenOf(data) - 1} ELSE {})

\* Len(): return len(c.data), no lock taken
LenCall(t) ==
    /\ pc[t] = "idle"
    /\ \E n \in LenOutcomes :
        lastOp' = [op |-> "Len", key |-> Nil, value |-> Nil, ret |-> Nil,
                   had |-> FALSE, len |-> n]
    /\ UNCHANGED <<config, mu, data, list, recency, written, dirtyList,
                   pc, call, cur, history>>

\* ------------------------------------------------------------ SimpleCache
SimpleLen(t) ==
    /\ variant = "simple" /\ t \in Workers
    /\ LenCall(t)

SimpleGetLock(t) ==
    /\ variant = "simple" /\ t \in Workers
    /\ Lock(t, "Get")
    /\ UNCHANGED <<config, lru, dirtyList, cur, history>>

SimpleGet(t, k) ==
    /\ variant = "simple" /\ pc[t] = "Get"
    /\ LET r == GetBody(list, data, k)
       IN  /\ list' = r.list
           /\ data' = r.data
           /\ recency' = IF data[k] # NoElem THEN Touch(recency, k) ELSE recency
           /\ lastOp' = [op |-> "Get", key |-> k, value |-> Nil,
                         ret |-> GetRet(list, data, k),
                         had |-> data[k] # NoElem, len |-> LenOf(data)]
    /\ Return(t)
    /\ UNCHANGED <<config, dirtyList, cur, history, written>>

SimpleSetLock(t) ==
    /\ variant = "simple" /\ t \in Workers
    /\ \E k \in Keys, v \in Values : SetFits(k, v)
    /\ Lock(t, "Set")
    /\ UNCHANGED <<config, lru, dirtyList, cur, history>>

SimpleSet(t, k, v) ==
    /\ variant = "simple" /\ pc[t] = "Set"
    /\ SetFits(k, v)
    /\ LET r == SetBody(list, data, capacity, k, v)
       IN  /\ list' = r.list
           /\ data' = r.data
           /\ recency' = Present(Touch(recency, k), r.data)
           /\ lastOp' = [op |-> "Set", key |-> k, value |-> v, ret |-> Nil,
                         had |-> data[k] # NoElem, len |-> LenOf(data)]
           /\ written' = [written EXCEPT ![k] = v]
    /\ Return(t)
    /\ UNCHANGED <<config, dirtyList, cur, history>>

SimpleDeleteLock(t) ==
    /\ variant = "simple" /\ t \in Workers
    /\ Lock(t, "Delete")
    /\ UNCHANGED <<config, lru, dirtyList, cur, history>>

SimpleDelete(t, k) ==
    /\ variant = "simple" /\ pc[t] = "Delete"
    /\ data' = DeleteData(data, k)
    /\ recency' = Present(recency, DeleteData(data, k))
    /\ lastOp' = [op |-> "Delete", key |-> k, value |-> Nil,
                  ret |-> DeleteRet(list, data, k),
                  had |-> data[k] # NoElem, len |-> LenOf(data)]
    /\ written' = [written EXCEPT ![k] = Nil]
    /\ Return(t)
    /\ UNCHANGED <<config, list, dirtyList, cur, history>>

\* ------------------------------------------------------------------ Cache
\* the dirtyElement a Set queues
Upsert(k, v) == [modified |-> TRUE, removed |-> FALSE, key |-> k, value |-> v]

\* the dirtyElement a Delete queues
Removal(k) == [modified |-> FALSE, removed |-> TRUE, key |-> k, value |-> Nil]

\* the model stops appending dirty records at MaxOps
MayAppend == Len(appendLog) < MaxOps

CacheLen(t) ==
    /\ variant = "cache" /\ t \in Workers
    /\ LenCall(t)

CacheGetLock(t) ==
    /\ variant = "cache" /\ t \in Workers
    /\ Lock(t, "Get")
    /\ UNCHANGED <<config, lru, dirtyList, cur, history>>

CacheGet(t, k) ==
    /\ variant = "cache" /\ pc[t] = "Get"
    /\ LET r == GetBody(list, data, k)
       IN  /\ list' = r.list
           /\ data' = r.data
           /\ recency' = IF data[k] # NoElem THEN Touch(recency, k) ELSE recency
           /\ lastOp' = [op |-> "Get", key |-> k, value |-> Nil,
                         ret |-> GetRet(list, data, k),
                         had |-> data[k] # NoElem, len |-> LenOf(data)]
    /\ Return(t)
    /\ UNCHANGED <<config, dirtyList, cur, history, written>>

CacheSetLock(t) ==
    /\ variant = "cache" /\ t \in Workers
    /\ MayAppend
    /\ \E k \in Keys, v \in Values : SetFits(k, v)
    /\ Lock(t, "Set")
    /\ UNCHANGED <<config, lru, dirtyList, cur, history>>

\* mutant: a Set that evicts also queues a Remove record for the evicted key
CacheSetEvictionRemoves(t, k, v) ==
    /\ variant = "cache" /\ pc[t] = "Set"
    /\ SetFits(k, v)
    /\ LET r == SetBody(list, data, capacity, k, v)
           gone == {j \in Keys : (data[j] # NoElem \/ j = k) /\ r.data[j] = NoElem}
           recs == IF gone = {} THEN <<Upsert(k, v)>>
                   ELSE <<Upsert(k, v), Removal(CHOOSE j \in gone : TRUE)>>
       IN  /\ list' = r.list
           /\ data' = r.data
           /\ recency' = Present(Touch(recency, k), r.data)
           /\ lastOp' = [op |-> "Set", key |-> k, value |-> v, ret |-> Nil,
                         had |-> data[k] # NoElem, len |-> LenOf(data)]
           /\ written' = [written EXCEPT ![k] = v]
           /\ dirtyList' = dirtyList \o recs
           /\ appendLog' = appendLog \o recs
    /\ mu' = NoThread
    /\ pc' = [pc EXCEPT ![t] = "check"]
    /\ UNCHANGED <<config, call, cur, sink, sinkLog, deleted>>

\* mutant: the deferred calls run in the order written, checkAndFlush before
\* Unlock
CacheSetLockHeld(t, k, v) ==
    /\ variant = "cache" /\ pc[t] = "Set"
    /\ SetFits(k, v)
    /\ LET r == SetBody(list, data, capacity, k, v)
       IN  /\ list' = r.list
           /\ data' = r.data
           /\ recency' = Present(Touch(recency, k), r.data)
           /\ lastOp' = [op |-> "Set", key |-> k, value |-> v, ret |-> Nil,
                         had |-> data[k] # NoElem, len |-> LenOf(data)]
           /\ written' = [written EXCEPT ![k] = v]
           /\ dirtyList' = PushBack(dirtyList, Upsert(k, v))
           /\ appendLog' = Append(appendLog, Upsert(k, v))
    /\ mu' = t
    /\ pc' = [pc EXCEPT ![t] = "check"]
    /\ UNCHANGED <<config, call, cur, sink, sinkLog, deleted>>

\* the body of Cache.Set and its deferred Unlock; checkAndFlush is still to run
CacheSet(t, k, v) ==
    /\ variant = "cache" /\ pc[t] = "Set"
    /\ SetFits(k, v)
    /\ LET r == SetBody(list, data, capacity, k, v)
       IN  /\ list' = r.list
           /\ data' = r.data
           /\ recency' = Present(Touch(recency, k), r.data)
           /\ lastOp' = [op |-> "Set", key |-> k, value |-> v, ret |-> Nil,
                         had |-> data[k] # NoElem, len |-> LenOf(data)]
           /\ written' = [written EXCEPT ![k] = v]
           /\ dirtyList' = PushBack(dirtyList, Upsert(k, v))
           /\ appendLog' = Append(appendLog, Upsert(k, v))
    /\ mu' = NoThread
    /\ pc' = [pc EXCEPT ![t] = "check"]
    /\ UNCHANGED <<config, call, cur, sink, sinkLog, deleted>>

\* mutant: the test forgets that a negative maxNrDirty disables the flush
ShouldFlushUnsigned(m, n) == n >= m

\* the test of checkAndFlush, on maxNrDirty m and a queue of length n
ShouldFlush(m, n) == m >= 0 /\ n >= m

\* mutant: checkAndFlush reads the queue length without taking the lock
CheckAndFlushUnlocked(t) ==
    /\ variant = "cache" /\ pc[t] = "check"
    /\ IF maxNrDirty >= 0 /\ Len(dirtyList) >= maxNrDirty
       THEN /\ pc' = [pc EXCEPT ![t] = "flush"]
            /\ call' = call
       ELSE /\ pc' = [pc EXCEPT ![t] = "idle"]
            /\ call' = [call EXCEPT ![t] = "none"]
    /\ UNCHANGED <<config, mu, lru, dirtyList, cur, history>>

\* checkAndFlush: Lock, compare, Unlock; Flush follows when the queue is long enough
CheckAndFlush(t) ==
    /\ variant = "cache" /\ pc[t] = "check" /\ mu = NoThread
    /\ IF ShouldFlush(maxNrDirty, Len(dirtyList))
       THEN /\ pc' = [pc EXCEPT ![t] = "flush"]
            /\ call' = call
       ELSE /\ pc' = [pc EXCEPT ![t] = "idle"]
            /\ call' = [call EXCEPT ![t] = NoCall]
    /\ UNCHANGED <<config, mu, lru, dirtyList, cur, history>>

CacheDeleteLock(t) ==
    /\ variant = "cache" /\ t \in Workers
    /\ MayAppend
    /\ Lock(t, "Delete")
    /\ UNCHANGED <<config, lru, dirtyList, cur, history>>

\* mutant: Delete queues its Remove record only when the key is cached
CacheDeleteIfPresent(t, k) ==
    /\ variant = "cache" /\ pc[t] = "Delete"
    /\ IF data[k] # NoElem
       THEN /\ dirtyList' = PushBack(dirtyList, Removal(k))
            /\ appendLog' = Append(appendLog, Removal(k))
       ELSE UNCHANGED <<dirtyList, appendLog>>
    /\ data' = DeleteData(data, k)
    /\ recency' = Present(recency, DeleteData(data, k))
    /\ lastOp' = [op |-> "Delete", key |-> k, value |-> Nil,
                  ret |-> DeleteRet(list, data, k),
                  had |-> data[k] # NoElem, len |-> LenOf(data)]
    /\ written' = [written EXCEPT ![k] = Nil]
    /\ deleted' = deleted \cup {k}
    /\ Return(t)
    /\ UNCHANGED <<config, list, cur, sink, sinkLog>>

\* the body of Cache.Delete and its deferred Unlock
CacheDelete(t, k) ==
    /\ variant = "cache" /\ pc[t] = "Delete"
    /\ dirtyList' = PushBack(dirtyList, Removal(k))
    /\ appendLog' = Append(appendLog, Removal(k))
    /\ data' = DeleteData(data, k)
    /\ recency' = Present(recency, DeleteData(data, k))
    /\ lastOp' = [op |-> "Delete", key |-> k, value |-> Nil,
                  ret |-> DeleteRet(list, data, k),
                  had |-> data[k] # NoElem, len |-> LenOf(data)]
    /\ written' = [written EXCEPT ![k] = Nil]
    /\ deleted' = deleted \cup {k}
    /\ Return(t)
    /\ UNCHANGED <<config, list, cur, sink, sinkLog>>

\* mutant: Flush gives the lock back before it replays the queue
FlushLockReleased(t) ==
    /\ mu = NoThread
    /\ mu' = NoThread
    /\ pc' = [pc EXCEPT ![t] = "replay"]
    /\ cur' = [cur EXCEPT ![t] = 1]

\* Flush takes c.mu; e := c.dirtyList.Front()
FlushLock(t) ==
    /\ mu = NoThread
    /\ mu' = t
    /\ pc' = [pc EXCEPT ![t] = "replay"]
    /\ cur' = [cur EXCEPT ![t] = 1]

\* a caller invokes Cache.Flush
ExplicitFlush(t) ==
    /\ variant = "cache" /\ t \in Workers
    /\ pc[t] = "idle"
    /\ FlushLock(t)
    /\ call' = [call EXCEPT ![t] = "Flush"]
    /\ UNCHANGED <<config, lru, dirtyList, history>>

\* the Flush that checkAndFlush decided on
ThresholdFlush(t) ==
    /\ variant = "cache" /\ pc[t] = "flush"
    /\ FlushLock(t)
    /\ UNCHANGED <<config, lru, dirtyList, call, history>>

\* the goroutine New starts: time.Sleep(flushPeriod); cache.Flush()
TimerFlush ==
    /\ variant = "cache" /\ Periodic
    /\ pc[Timer] = "idle"
    /\ FlushLock(Timer)
    /\ call' = [call EXCEPT ![Timer] = "Flush"]
    /\ UNCHANGED <<config, lru, dirtyList, history>>

\* the Flusher call Flush makes for one dirtyElement
SinkCall(de) ==
    IF de.removed THEN [op |-> "Remove", key |-> de.key, value |-> Nil]
    ELSE [op |-> "Add", key |-> de.key, value |-> de.value]

\* memFlusher.Add / memFlusher.Remove
SinkApply(s, c) ==
    IF c.op = "Remove" THEN [s EXCEPT ![c.key] = Nil]
    ELSE [s EXCEPT ![c.key] = c.value]

\* mutant: the loop walks the queue from the back
FlushElemBackward(t) == dirtyList[Len(dirtyList) + 1 - cur[t]]

\* the element the loop of Flush visits
FlushElem(t) == dirtyList[cur[t]]

\* one iteration of the loop of Flush, the lock held
FlushReplay(t) ==
    /\ pc[t] = "replay"
    /\ cur[t] <= Len(dirtyList)
    /\ LET de == FlushElem(t)
       IN  IF de.removed \/ de.modified
           THEN /\ sink' = SinkApply(sink, SinkCall(de))
                /\ sinkLog' = Append(sinkLog, SinkCall(de))
           ELSE UNCHANGED <<sink, sinkLog>>
    /\ cur' = [cur EXCEPT ![t] = cur[t] + 1]
    /\ UNCHANGED <<config, mu, lru, dirtyList, pc, call, appendLog, deleted>>

\* mutant: Flush replaces the queue without waiting for the end of the loop
FlushDoneEarly(t) ==
    /\ pc[t] = "replay"
    /\ dirtyList' = <<>>
    /\ cur' = [cur EXCEPT ![t] = 0]
    /\ Return(t)
    /\ UNCHANGED <<config, lru, history>>

\* the loop is over: c.dirtyList = list.New(), and the deferred Unlock
FlushDone(t) ==
    /\ pc[t] = "replay"
    /\ cur[t] > Len(dirtyList)
    /\ dirtyList' = <<>>
    /\ cur' = [cur EXCEPT ![t] = 0]
    /\ Return(t)
    /\ UNCHANGED <<config, lru, history>>

\* -------------------------------------------------------------------- Next
Next ==
    \/ \E t \in Workers : SimpleGetLock(t)
    \/ \E t \in Workers, k \in Keys : SimpleGet(t, k)
    \/ \E t \in Workers : SimpleSetLock(t)
    \/ \E t \in Workers, k \in Keys, v \in Values : SimpleSet(t, k, v)
    \/ \E t \in Workers : SimpleDeleteLock(t)
    \/ \E t \in Workers, k \in Keys : SimpleDelete(t, k)
    \/ \E t \in Workers : CacheGetLock(t)
    \/ \E t \in Workers, k \in Keys : CacheGet(t, k)
    \/ \E t \in Workers : CacheSetLock(t)
    \/ \E t \in Workers, k \in Keys, v \in Values : CacheSet(t, k, v)
    \/ \E t \in Workers : CheckAndFlush(t)
    \/ \E t \in Workers : CacheDeleteLock(t)
    \/ \E t \in Workers, k \in Keys : CacheDelete(t, k)
    \/ \E t \in Workers : ExplicitFlush(t)
    \/ \E t \in Workers : ThresholdFlush(t)
    \/ TimerFlush
    \/ \E t \in Threads : FlushReplay(t)
    \/ \E t \in Threads : FlushDone(t)

Spec == Init /\ [][Next]_vars

\* ------------------------------------------------------------------ claims
\* keys of the lookup index
InIndex(d) == {k \in Keys : d[k] # NoElem}

\* thread t runs the body of op in this step
Runs(t, op) == pc[t] = op /\ pc'[t] # op

\* C1: with a capacity C >= 0, Len() <= C after every completed call of any
\* sequence of Set, Get and Delete calls.
C1_LenWithinCapacity == LenOf(data) <= capacity

\* C2: a Set of an absent key that makes the entry count exceed a capacity
\* C > 0 removes exactly one entry from the cache, the present key whose
\* last touch (Set or Get) is the oldest.
C2_EvictsLeastRecentlyTouched ==
    [][\A t \in Workers :
        (/\ Runs(t, "Set")
         /\ capacity > 0
         /\ data[lastOp'.key] = NoElem
         /\ LenOf(data) + 1 > capacity)
        => InIndex(data') =
             (InIndex(data) \cup {lastOp'.key}) \ {recency[Len(recency)]}]_vars

\* C3: the recency list holds exactly the keys of the index, each once:
\* |Index| = |List| and every key of the index resolves to the list element
\* that carries that key.
C3_ListMatchesIndex ==
    /\ LenOf(data) = Len(list)
    /\ \A k \in InIndex(data) : data[k] \in 1..Len(list) /\ list[data[k]].key = k
    /\ \A i, j \in 1..Len(list) : list[i].key = list[j].key => i = j

\* C4: after a Get(k) that returned a stored value, on a cache of capacity
\* >= 2, the next Set of a new key does not evict k.
C4_GetProtectsFromEviction ==
    [][\A t \in Workers :
        (/\ Runs(t, "Set")
         /\ capacity >= 2
         /\ lastOp.op = "Get" /\ lastOp.ret # Nil
         /\ data[lastOp'.key] = NoElem)
        => data'[lastOp.key] # NoElem]_vars

\* thread t is inside the replay loop of Flush with a Flusher call still to make
InSinkCall(t) == pc[t] = "replay" /\ cur[t] <= Len(dirtyList)

AppendedCalls == [i \in 1..Len(appendLog) |-> SinkCall(appendLog[i])]

\* C6: the Flusher calls made so far are, in order, a prefix of the dirty
\* records appended by Set and Delete.
C6_SinkIsPrefixOfAppends ==
    /\ Len(sinkLog) <= Len(appendLog)
    /\ sinkLog = SubSeq(AppendedCalls, 1, Len(sinkLog))

\* C6 witness: two flushes overlap in time (one replays, one waits for the
\* lock) after records of an earlier flush have reached the Flusher.
C6_Witness ==
    \E t, u \in Threads :
        /\ t # u /\ InSinkCall(t) /\ pc[u] = "flush"
        /\ Len(sinkLog) >= 2 /\ cur[t] <= Len(sinkLog)

\* the value the last record of key k leaves: the value of the last Set(k),
\* or Nil when the last record is a Remove (s has a record of k)
RECURSIVE FinalValue(_, _)
FinalValue(s, k) ==
    IF s = <<>> THEN Nil
    ELSE IF s[Len(s)].key = k
         THEN (IF s[Len(s)].removed THEN Nil ELSE s[Len(s)].value)
         ELSE FinalValue(SubSeq(s, 1, Len(s) - 1), k)

\* keys with a dirty record
Queued(s) == {s[i].key : i \in 1..Len(s)}

\* a flush has replayed the whole queue and nothing was appended since
FlushComplete ==
    \/ dirtyList = <<>> /\ \A t \in Threads : pc[t] # "replay"
    \/ \E t \in Threads : pc[t] = "replay" /\ cur[t] > Len(dirtyList)

\* C7: when a Flush completes and no mutation was made since it started, the
\* Flusher maps every key that had a queued record to the value of its last
\* Set if its last record is an Upsert, and has no entry for it if it is a
\* Remove.
C7_FinalWriteWins ==
    FlushComplete => \A k \in Queued(appendLog) : sink[k] = FinalValue(appendLog, k)

\* C7 witness: Set(k,"1"), Delete(k), Set(k,"2") were flushed together and
\* the Flusher holds k -> "2".
C7_Witness ==
    \E t \in Threads :
        /\ pc[t] = "replay" /\ cur[t] = 4
        /\ dirtyList = <<Upsert("key1", "1"), Removal("key1"), Upsert("key1", "2")>>
        /\ sink["key1"] = "2"

\* no goroutine is inside a call
AllIdle == \A t \in Threads : pc[t] = "idle"

\* C8: with maxNrDirty = M >= 1 and no timer, once M mutating calls (Set or
\* Delete) were made and all have returned, the Flusher has received their M
\* calls (unless a flush emptied the queue before it reached M).
C8_ThresholdFlushes ==
    (/\ variant = "cache" /\ maxNrDirty >= 1 /\ flushPeriod = 0
     /\ Len(appendLog) >= maxNrDirty /\ AllIdle)
    => Len(sinkLog) >= maxNrDirty \/ Len(dirtyList) < maxNrDirty

\* C9: with a flushPeriod of at least one second and the timer goroutine
\* scheduled fairly, every dirty record appended is eventually passed to the
\* Flusher.
C9_EventuallyDelivered ==
    \A n \in 1..MaxOps :
        (flushPeriod >= 10 /\ Len(appendLog) >= n) ~> (Len(sinkLog) >= n)

\* C9 witness: maxNrDirty is negative and the timer's flush has delivered a
\* record.
C9_Witness ==
    /\ flushPeriod >= 10 /\ maxNrDirty < 0
    /\ pc[Timer] = "replay" /\ cur[Timer] > 1
    /\ \A t \in Workers : call[t] # "Flush"

\* the queue lost records in this step
QueueShrinks == Len(dirtyList') < Len(dirtyList)

\* C10: with maxNrDirty negative no Set or Delete causes a Flusher call: each
\* Flusher call, and each emptying of the queue, is made by the timer (which
\* exists only with a flushPeriod of a second or more) or inside an explicit
\* Flush; without both the Flusher gets no call and the queue keeps every record.
C10_NoThresholdFlush ==
    [][(maxNrDirty < 0 /\ (sinkLog' # sinkLog \/ QueueShrinks))
        => \E t \in Threads :
             /\ pc[t] = "replay" /\ call[t] = "Flush"
             /\ (t = Timer => flushPeriod >= 10)]_vars

\* C10 witness: maxNrDirty negative, no timer, the Sets and Deletes have
\* returned, the Flusher got nothing and the queue holds every record.
C10_Witness ==
    /\ variant = "cache" /\ maxNrDirty < 0 /\ flushPeriod = 0
    /\ AllIdle /\ Len(appendLog) >= 2
    /\ sinkLog = <<>> /\ dirtyList = appendLog
    /\ \E i, j \in 1..Len(appendLog) : appendLog[i].removed /\ appendLog[j].modified

\* C11: Delete(k) on a present key returns the value of the last Set(k),
\* removes k from the index and lowers Len() by one, and a Get(k) that comes
\* next returns absent; Delete(k) on an absent key of the plain cache returns
\* absent and leaves the index, the list and Len() as they were.
C11_DeleteRemovesAndReturns ==
    [][\A t \in Workers :
        /\ Runs(t, "Delete")
           => LET k == lastOp'.key
              IN  /\ data[k] # NoElem
                     => /\ written[k] # Nil /\ lastOp'.ret = written[k]
                        /\ data'[k] = NoElem
                        /\ LenOf(data') = LenOf(data) - 1
                  /\ (data[k] = NoElem /\ variant = "simple")
                     => /\ lastOp'.ret = Nil
                        /\ data' = data /\ list' = list
                        /\ LenOf(data') = LenOf(data)
        /\ (Runs(t, "Get") /\ lastOp.op = "Delete" /\ lastOp'.key = lastOp.key)
           => lastOp'.ret = Nil]_vars

\* C11 witness: a plain cache whose key was Set twice has deleted it, returned
\* the second value, and still holds another key.
C11_Witness ==
    /\ variant = "simple"
    /\ lastOp.op = "Delete" /\ lastOp.ret = "2"
    /\ data[lastOp.key] = NoElem /\ LenOf(data) = 1

\* C12: Set(k, v) on a present key replaces the value of k, leaves Len() and
\* the set of cached keys as they were (nothing is evicted, no other entry
\* changes), and makes k the most recently used key; a Get(k) that comes next
\* returns v.
C12_SetPresentReplaces ==
    [][\A t \in Workers :
        (Runs(t, "Set") /\ data[lastOp'.key] # NoElem)
        => LET k == lastOp'.key
               v == lastOp'.value
           IN  /\ list'[data'[k]] = [key |-> k, value |-> v]
               /\ GetRet(list', data', k) = v
               /\ LenOf(data') = LenOf(data)
               /\ InIndex(data') = InIndex(data)
               /\ Len(list') = Len(list)
               /\ \A j \in InIndex(data) \ {k} : list'[data'[j]] = list[data[j]]
               /\ data'[k] = 1 /\ recency'[1] = k]_vars

\* C12 witness: a plain cache of capacity 1 is full with a key whose value
\* "1" the last Set has replaced by "2".
C12_Witness ==
    /\ variant = "simple" /\ capacity = 1
    /\ lastOp.op = "Set" /\ lastOp.had /\ lastOp.value = "2"
    /\ LenOf(data) = 1 /\ GetRet(list, data, lastOp.key) = "2"

\* C13: under every interleaving of concurrent Get, Set and Delete calls a
\* Get(k) returns absent or the value of the latest Set(k), in the order the
\* calls took the lock, that no Delete(k) followed: never a value for a key
\* never Set or since deleted, never an older value of k.
C13_GetReturnsLatestSet ==
    [][\A t \in Workers :
        Runs(t, "Get")
        => \/ lastOp'.ret = Nil
           \/ /\ written[lastOp'.key] # Nil
              /\ lastOp'.ret = written[lastOp'.key]]_vars

\* C13 witness: a Get returned "2" for a key that was Set to "1" and then to
\* "2", the other key is cached with another value, and the other caller has
\* taken the lock for a Delete.
C13_Witness ==
    /\ lastOp.op = "Get" /\ lastOp.ret = "2"
    /\ written[lastOp.key] = "2"
    /\ \E j \in Keys \ {lastOp.key} : data[j] # NoElem /\ written[j] = "1"
    /\ \E u \in Workers : pc[u] = "Delete" /\ mu = u

\* keys that were Set and not deleted since
Written == {k \in DOMAIN written : written[k] # Nil}

\* C14: a cache built with a negative capacity never evicts: every key that
\* was Set (and not deleted) is in the cache, Get returns its value, and
\* Len() is the number of these keys, however many they are.
C14_NegativeCapacityNeverEvicts ==
    capacity = NewCapacity(-1)
    => /\ LenOf(data) = Cardinality(Written)
       /\ \A k \in Written : GetRet(list, data, k) = written[k]

\* C15: a cache of capacity 0 retains nothing: Len() is 0 after every call,
\* every Get returns absent, also the Get that comes right after a Set of its
\* key, and on the write-back cache every Set still appends its Upsert record
\* to the dirty queue.
C15_CapacityZeroRetainsNothing ==
    [][capacity = 0
       => /\ LenOf(data) = 0 /\ LenOf(data') = 0
          /\ \A k \in Keys : GetRet(list', data', k) = Nil
          /\ \A t \in Workers :
                /\ Runs(t, "Get") => lastOp'.ret = Nil
                /\ (Runs(t, "Set") /\ variant = "cache")
                   => LET de == Upsert(lastOp'.key, lastOp'.value)
                      IN  /\ dirtyList' = Append(dirtyList, de)
                          /\ appendLog' = Append(appendLog, de)]_vars

\* C15 witness: on a write-back cache of capacity 0 two Sets have queued their
\* Upserts, and the Get of the key of the last Set, made next, returned absent.
C15_Witness ==
    /\ variant = "cache" /\ capacity = 0
    /\ lastOp.op = "Get" /\ lastOp.ret = Nil /\ ~lastOp.had
    /\ Len(appendLog) >= 2
    /\ appendLog[Len(appendLog)] = Upsert(lastOp.key, written[lastOp.key])
    /\ dirtyList = appendLog /\ LenOf(data) = 0

\* C16: every Set of the write-back cache appends exactly one Upsert record,
\* of its own key and value, whether or not it evicts; an eviction appends no
\* record, so every Remove record of the queue and every Remove call the
\* Flusher gets is for a key that was passed to Delete.
C16_EvictionAppendsNothing ==
    [][/\ \A t \in Workers :
            (Runs(t, "Set") /\ variant = "cache")
            => dirtyList' = Append(dirtyList, Upsert(lastOp'.key, lastOp'.value))
       /\ \A i \in DOMAIN dirtyList' :
            dirtyList'[i].removed => dirtyList'[i].key \in deleted'
       /\ \A i \in DOMAIN sinkLog' :
            sinkLog'[i].op = "Remove" => sinkLog'[i].key \in deleted']_vars

\* C16 witness: the last Set evicted a key that was never passed to Delete,
\* every record has been flushed, and the Flusher still holds the evicted key
\* with the value of its last Set.
C16_Witness ==
    /\ variant = "cache"
    /\ lastOp.op = "Set" /\ ~lastOp.had /\ lastOp.len = LenOf(data)
    /\ dirtyList = <<>> /\ Len(sinkLog) = Len(appendLog) /\ Len(sinkLog) >= 2
    /\ \E k \in Keys \ deleted :
        /\ written[k] # Nil /\ data[k] = NoElem
        /\ sink[k] = written[k]

\* the Remove(k) calls the Flusher has received
RemoveCalls(k) ==
    Cardinality({i \in DOMAIN sinkLog : sinkLog[i].op = "Remove" /\ sinkLog[i].key = k})

\* the Remove records of k that Delete has queued
RemoveRecords(k) ==
    Cardinality({i \in DOMAIN appendLog : appendLog[i] = Removal(k)})

\* C17: Delete(k) on the write-back cache appends exactly one Remove record
\* of k whether or not k is cached and returns the value k had, absent when it
\* had none; the Flusher gets Remove(k) at most once per record, and exactly
\* once per record when a flush has replayed the queue.
C17_DeleteQueuesOneRemove ==
    [][/\ \A t \in Workers :
            (Runs(t, "Delete") /\ variant = "cache")
            => LET k == lastOp'.key
               IN  /\ dirtyList' = Append(dirtyList, Removal(k))
                   /\ appendLog' = Append(appendLog, Removal(k))
                   /\ lastOp'.ret = IF data[k] # NoElem THEN written[k] ELSE Nil
       /\ \A k \in Keys :
            /\ RemoveCalls(k)' <= RemoveRecords(k)'
            /\ FlushComplete' => RemoveCalls(k)' = RemoveRecords(k)']_vars

\* C17 witness: Set(k), Delete(k) of the cached key, Delete(k) of the absent
\* key were queued; a flush has replayed all three and the Flusher got
\* Remove(k) twice.
C17_Witness ==
    /\ variant = "cache"
    /\ lastOp.op = "Delete" /\ ~lastOp.had /\ lastOp.ret = Nil
    /\ \E k \in Keys, v \in Values :
        /\ appendLog = <<Upsert(k, v), Removal(k), Removal(k)>>
        /\ RemoveCalls(k) = 2
    /\ sinkLog = AppendedCalls /\ FlushComplete

\* C18: every public operation reads and writes the list, the index and the
\* dirty queue only while it holds the mutex: the bodies of Get, Set and Delete
\* and the replay of Flush run with the lock held by their own thread, and
\* Len() does not read the index while another thread holds the lock in the
\* middle of a Set or a Delete.
C18_AccessOnlyUnderLock ==
    [][/\ \A t \in Workers :
            (Runs(t, "Get") \/ Runs(t, "Set") \/ Runs(t, "Delete")) => mu = t
       /\ \A t \in Threads : pc[t] = "replay" => mu = t
       /\ (lastOp'.op = "Len" /\ lastOp' # lastOp)
          => ~\E u \in Workers : mu = u /\ pc[u] \in {"Set", "Delete"}]_vars

\* C19: a Set of the write-back cache has given the lock back before its
\* threshold check and before its Flush; no thread asks for the lock while it
\* holds it; and with Flusher calls that return and a fair mutex nothing
\* deadlocks: the lock is freed again and again and every call returns.
C19_NoNestedLockAllReturn ==
    /\ [](\A t \in Threads : pc[t] \in {"idle", "check", "flush"} => mu # t)
    /\ (mu # NoThread) ~> (mu = NoThread)
    /\ \A t \in Threads : (pc[t] # "idle") ~> (pc[t] = "idle")

\* C19 witness: the threshold flush of one Set replays the queue under the
\* lock while the Set of the other caller, its own lock released, waits for
\* the lock to flush as well.
C19_Witness ==
    \E t, u \in Workers :
        /\ t # u
        /\ pc[t] = "replay" /\ call[t] = "Set" /\ mu = t
        /\ pc[u] = "flush" /\ call[u] = "Set"

\* the records of the queue that no flush has passed to the Flusher yet
Pending ==
    IF \E t \in Threads : pc[t] = "replay"
    THEN LET t == CHOOSE u \in Threads : pc[u] = "replay"
         IN  SubSeq(dirtyList, cur[t], Len(dirtyList))
    ELSE dirtyList

\* C20: under every interleaving of Set, Delete and the three kinds of flush
\* each dirty record goes to the Flusher exactly once: the calls made so far
\* followed by the calls of the records still queued are the records appended,
\* in order, so replacing the queue drops none and no flush replays a record
\* of another flush.
C20_EachRecordOnce ==
    /\ sinkLog \o [i \in 1..Len(Pending) |-> SinkCall(Pending[i])] = AppendedCalls
    /\ Cardinality({t \in Threads : pc[t] = "replay"}) <= 1

\* C20 witness: an earlier flush delivered one record and replaced the queue;
\* two records were appended since, and a second flush has delivered the
\* first of them while a third caller waits to flush.
C20_Witness ==
    \E t \in Threads :
        /\ pc[t] = "replay" /\ cur[t] = 2
        /\ Len(dirtyList) = 2 /\ Len(sinkLog) = 2 /\ Len(appendLog) = 3
        /\ \E u \in Workers \ {t} : pc[u] = "flush"

\* ------------------------------------------------- the write-back protocol
\* the Set(key, value) calls and the keys of Get and Delete calls made in the
\* runs that check the flush protocol
FlushSets == {<<"key1", "1">>, <<"key1", "2">>, <<"key2", "1">>}
FlushKeys == {"key1", "key2"}

\* the write-back cache alone, with every trigger of Flush
NextFlush ==
    \/ \E t \in Workers : CacheGetLock(t)
    \/ \E t \in Workers, k \in FlushKeys : CacheGet(t, k)
    \/ \E t \in Workers : CacheSetLock(t)
    \/ \E t \in Workers, c \in FlushSets : CacheSet(t, c[1], c[2])
    \/ \E t \in Workers : CheckAndFlush(t)
    \/ \E t \in Workers : CacheDeleteLock(t)
    \/ \E t \in Workers, k \in FlushKeys : CacheDelete(t, k)
    \/ \E t \in Workers : ExplicitFlush(t)
    \/ \E t \in Workers : ThresholdFlush(t)
    \/ TimerFlush
    \/ \E t \in Threads : FlushReplay(t)
    \/ \E t \in Threads : FlushDone(t)

FlushSpec == New /\ [][NextFlush]_vars

\* ---------------------------------------------------------------- fairness
\* keys and values the callers use in the runs checked for liveness
LiveKeys == {"key1"}
LiveValues == {"1"}

\* New with a flushPeriod that starts the timer goroutine
NewPeriodic == New /\ flushPeriod >= 10

\* the write-back cache and its timer
NextPeriodic ==
    \/ \E t \in Workers : CacheGetLock(t)
    \/ \E t \in Workers, k \in LiveKeys : CacheGet(t, k)
    \/ \E t \in Workers : CacheSetLock(t)
    \/ \E t \in Workers, k \in LiveKeys, v \in LiveValues : CacheSet(t, k, v)
    \/ \E t \in Workers : CheckAndFlush(t)
    \/ \E t \in Workers : CacheDeleteLock(t)
    \/ \E t \in Workers, k \in LiveKeys : CacheDelete(t, k)
    \/ \E t \in Workers : ExplicitFlush(t)
    \/ \E t \in Workers : ThresholdFlush(t)
    \/ TimerFlush
    \/ \E t \in Threads : FlushReplay(t)
    \/ \E t \in Threads : FlushDone(t)

\* sync.Mutex hands the lock to a waiter that has waited long, and the timer
\* goroutine loops for ever: its Flush gets the lock again and again. A
\* goroutine that holds the lock runs on to its Unlock (Flusher calls return).
Fairness ==
    /\ SF_vars(TimerFlush)
    /\ \A t \in Threads : WF_vars(FlushReplay(t)) /\ WF_vars(FlushDone(t))
    /\ \A t \in Workers :
        /\ WF_vars(\E k \in LiveKeys : CacheGet(t, k))
        /\ WF_vars(\E k \in LiveKeys, v \in LiveValues : CacheSet(t, k, v))
        /\ WF_vars(\E k \in LiveKeys : CacheDelete(t, k))

FairSpec == NewPeriodic /\ [][NextPeriodic]_vars /\ Fairness

\* a goroutine blocked in c.mu.Lock() gets the lock in the end: sync.Mutex
\* hands the lock over to a waiter that has waited long
LockFairness ==
    \A t \in Workers :
        /\ SF_vars(CheckAndFlush(t))
        /\ SF_vars(ThresholdFlush(t))

\* every configuration of the write-back cache, each goroutine running on
ReturnSpec == New /\ [][NextPeriodic]_vars /\ Fairness /\ LockFairness

\* ---------------------------------------------------------- the plain cache
\* keys the callers use in the runs that check SimpleCache alone
LruKeys == {"key1", "key2"}

\* SimpleCache under concurrent callers
NextLru ==
    \/ \E t \in Workers : SimpleGetLock(t)
    \/ \E t \in Workers, k \in LruKeys : SimpleGet(t, k)
    \/ \E t \in Workers : SimpleSetLock(t)
    \/ \E t \in Workers, k \in LruKeys, v \in Values : SimpleSet(t, k, v)
    \/ \E t \in Workers : SimpleDeleteLock(t)
    \/ \E t \in Workers, k \in LruKeys : SimpleDelete(t, k)

LruSpec == NewSimple /\ [][NextLru]_vars

\* ------------------------------------------------------ Len() and the lock
\* both caches with every operation, Len() included, on one key
NextLen ==
    \/ \E t \in Workers : SimpleLen(t)
    \/ \E t \in Workers : SimpleGetLock(t)
    \/ \E t \in Workers, k \in LiveKeys : SimpleGet(t, k)
    \/ \E t \in Workers : SimpleSetLock(t)
    \/ \E t \in Workers, k \in LiveKeys, v \in LiveValues : SimpleSet(t, k, v)
    \/ \E t \in Workers : SimpleDeleteLock(t)
    \/ \E t \in Workers, k \in LiveKeys : SimpleDelete(t, k)
    \/ \E t \in Workers : CacheLen(t)
    \/ \E t \in Workers : CacheGetLock(t)
    \/ \E t \in Workers, k \in LiveKeys : CacheGet(t, k)
    \/ \E t \in Workers : CacheSetLock(t)
    \/ \E t \in Workers, k \in LiveKeys, v \in LiveValues : CacheSet(t, k, v)
    \/ \E t \in Workers : CheckAndFlush(t)
    \/ \E t \in Workers : CacheDeleteLock(t)
    \/ \E t \in Workers, k \in LiveKeys : CacheDelete(t, k)
    \/ \E t \in Workers : ExplicitFlush(t)
    \/ \E t \in Workers : ThresholdFlush(t)
    \/ TimerFlush
    \/ \E t \in Threads : FlushReplay(t)
    \/ \E t \in Threads : FlushDone(t)

LenSpec == Init /\ [][NextLen]_vars

\* ------------------------------------------------- always-in-memory cache
\* one more distinct key than the capacity NewSimple stores for capacity < 0
FillCount == InitialCapacity + 1
FillKeys == 1..FillCount
Filler == "w1"

\* NewSimple(-1), the callers' keys numbered
NewSimpleFill ==
    /\ variant = "simple"
    /\ capacity = NewCapacity(-1)
    /\ maxNrDirty = -1
    /\ flushPeriod = 0
    /\ mu = NoThread
    /\ data = [k \in FillKeys |-> NoElem]
    /\ list = <<>>
    /\ dirtyList = <<>>
    /\ pc = [t \in Threads |-> "idle"]
    /\ call = [t \in Threads |-> NoCall]
    /\ cur = [t \in Threads |-> 0]
    /\ sink = [k \in Keys |-> Nil]
    /\ sinkLog = <<>>
    /\ appendLog = <<>>
    /\ recency = <<>>
    /\ lastOp = NoOp
    /\ written = [k \in FillKeys |-> Nil]
    /\ deleted = {}

\* a whole SimpleCache.Set call (Lock, body, deferred Unlock) of the single
\* caller, on a key never Set before, the keys taken in order
FillSet(t, k, v) ==
    /\ variant = "simple"
    /\ pc[t] = "idle" /\ mu = NoThread
    /\ written[k] = Nil
    /\ IF k = 1 THEN TRUE ELSE written[k - 1] # Nil
    /\ LET r == SetBody(list, data, capacity, k, v)
       IN  /\ list' = r.list
           /\ data' = r.data
           /\ recency' = Present(Touch(recency, k), r.data)
           /\ lastOp' = [op |-> "Set", key |-> k, value |-> v, ret |-> Nil,
                         had |-> data[k] # NoElem, len |-> LenOf(data)]
           /\ written' = [written EXCEPT ![k] = v]
    /\ UNCHANGED <<config, mu, pc, call, dirtyList, cur, history>>

NextFill == \E k \in FillKeys, v \in LiveValues : FillSet(Filler, k, v)

FillSpec == NewSimpleFill /\ [][NextFill]_vars
====
